---- MODULE Spec2Model ----
(***************************************************************************)
(* Workplace Inspector: the analysis endpoint (POST, extract,              *)
(* extractRiskLevel) and the client component ExplainMyScreenshot (usage   *)
(* gate, history cache), both in src/app/api/explain-screenshot/route.ts.  *)
(*                                                                         *)
(* Texts are sequences of tokens; a token is a string of characters that   *)
(* the regular expressions of the parser treat as a unit.  No two tokens   *)
(* concatenate to a section marker or to a risk word.                      *)
(***************************************************************************)
EXTENDS Integers, Sequences, FiniteSets, TLC

\* ------------------------------------------------------------------ bounds
MaxLen == 4          \* longest model reply, in tokens, in SpecParse
MaxReplyLen == 1     \* longest model reply, in tokens, in SpecEndpoint
MaxDay == 1          \* calendar days a client run goes through are 0..MaxDay
MaxAnalyses == 3     \* history items a client run of the plain user creates
MaxReplays == 1      \* history items a client run of the busy user creates

\* ------------------------------------------------------- program constants
DAILY_FREE_LIMIT == 2
HISTORY_LIMIT == 20
MaxImageBytes == 10 * 1024 * 1024

None == "none"

\* ----------------------------------------------------------------- tokens
Tags == {"WHAT_I_SEE", "WHAT_THIS_MEANS", "POSSIBLE_ISSUES",
         "WHAT_YOU_CAN_DO_NEXT", "RISK_LEVEL"}

NL == "\n"
SP == " "

\* the characters the replies are made of
Alphabet == {"[WHAT_I_SEE]", "[what_i_see]", "[RISK_LEVEL]", "[",
             NL, SP, "x", "HIGH", "medium", "Low"}

\* String.prototype.toUpperCase / the "i" flag, token by token
ToUpper(tok) ==
  CASE tok = "[what_i_see]" -> "[WHAT_I_SEE]"
    [] tok = "medium"       -> "MEDIUM"
    [] tok = "Low"          -> "LOW"
    [] tok = "x"            -> "X"
    [] OTHER                -> tok

\* the source of the pattern \[TAG\] for a tag
MarkerOf(tag) ==
  CASE tag = "WHAT_I_SEE"           -> "[WHAT_I_SEE]"
    [] tag = "WHAT_THIS_MEANS"      -> "[WHAT_THIS_MEANS]"
    [] tag = "POSSIBLE_ISSUES"      -> "[POSSIBLE_ISSUES]"
    [] tag = "WHAT_YOU_CAN_DO_NEXT" -> "[WHAT_YOU_CAN_DO_NEXT]"
    [] tag = "RISK_LEVEL"           -> "[RISK_LEVEL]"

\* \s
IsSpace(tok) == tok \in {NL, SP}

\* \[ : the token begins with an opening bracket
StartsWithBracket(tok) ==
  tok = "[" \/ \E tag \in Tags : ToUpper(tok) = MarkerOf(tag)

\* \[TAG\] with the "i" flag, at position i of text
MatchesMarker(tag, text, i) ==
  i \in 1..Len(text) /\ ToUpper(text[i]) = MarkerOf(tag)

\* every text of at most n tokens
TextsUpTo(n) == UNION {[1..k -> Alphabet] : k \in 0..n}

\* ---------------------------------------------------------------- parsing
\* greedy \s* from position i: the first position that is not whitespace
RECURSIVE SkipSpaces(_, _)
SkipSpaces(text, i) ==
  IF i <= Len(text) /\ IsSpace(text[i]) THEN SkipSpaces(text, i + 1) ELSE i

\* (?=\n\[|$) at position e (no "m" flag: $ is the end of the text)
Lookahead(text, e) ==
  \/ e = Len(text) + 1
  \/ e + 1 <= Len(text) /\ text[e] = NL /\ StartsWithBracket(text[e + 1])

\* lazy ([\s\S]*?) from position k: the first position where the lookahead holds
RECURSIVE LazyEnd(_, _)
LazyEnd(text, e) ==
  IF Lookahead(text, e) THEN e ELSE LazyEnd(text, e + 1)

\* String.prototype.trim
RECURSIVE TrimLeft(_)
TrimLeft(s) ==
  IF s # <<>> /\ IsSpace(Head(s)) THEN TrimLeft(Tail(s)) ELSE s

RECURSIVE TrimRight(_)
TrimRight(s) ==
  IF s # <<>> /\ IsSpace(s[Len(s)]) THEN TrimRight(SubSeq(s, 1, Len(s) - 1)) ELSE s

Trim(s) == TrimRight(TrimLeft(s))

\* positions where the marker of tag occurs
MarkerPositions(tag, text) == {i \in 1..Len(text) : MatchesMarker(tag, text, i)}

Min(S) == CHOOSE m \in S : \A n \in S : m <= n

\* extract: new RegExp(`\\[${tag}\\]\\s*([\\s\\S]*?)(?=\\n\\[|$)`, "i")
extract(tag, text) ==
  IF MarkerPositions(tag, text) = {} THEN <<>>
  ELSE LET i == Min(MarkerPositions(tag, text))
           k == SkipSpaces(text, i + 1)
           e == LazyEnd(text, k)
       IN  Trim(SubSeq(text, k, e - 1))

\* (LOW|MEDIUM|HIGH) with the "i" flag at position k
RiskWordAt(text, k) ==
  k \in 1..Len(text) /\ ToUpper(text[k]) \in {"LOW", "MEDIUM", "HIGH"}

\* extractRiskLevel without toUpperCase
extractRiskLevel_noUpper(text) ==
  LET hits == {i \in MarkerPositions("RISK_LEVEL", text) :
                 RiskWordAt(text, SkipSpaces(text, i + 1))}
  IN  IF hits = {} THEN "LOW"
      ELSE text[SkipSpaces(text, Min(hits) + 1)]

\* extractRiskLevel: /\[RISK_LEVEL\]\s*(LOW|MEDIUM|HIGH)/i
extractRiskLevel(text) ==
  LET hits == {i \in MarkerPositions("RISK_LEVEL", text) :
                 RiskWordAt(text, SkipSpaces(text, i + 1))}
  IN  IF hits = {} THEN "LOW"
      ELSE ToUpper(text[SkipSpaces(text, Min(hits) + 1)])

\* the sections object of POST
Sections(content) ==
  [whatISee         |-> extract("WHAT_I_SEE", content),
   whatThisMeans    |-> extract("WHAT_THIS_MEANS", content),
   possibleIssues   |-> extract("POSSIBLE_ISSUES", content),
   whatYouCanDoNext |-> extract("WHAT_YOU_CAN_DO_NEXT", content),
   riskLevel        |-> extractRiskLevel(content),
   raw              |-> content]

\* ------------------------------------------------------------------ state
VARIABLES
  \* the endpoint (POST)
  request,        \* the multipart request: [formOk, image, mode]
  apiKey,         \* process.env.OPENAI_API_KEY is set
  upstream,       \* what openai.chat.completions.create will do
  srvPc,          \* "start", "awaiting" (the provider call is outstanding), "done"
  providerCall,   \* the call made to the provider, or NoCall
  response,       \* the NextResponse returned, or NoResponse
  \* the browser
  today,          \* todayKey(): the local calendar day
  now,            \* Date.now()
  lsHistory,      \* localStorage[HISTORY_KEY]
  lsDaily,        \* localStorage[DAILY_KEY]
  user,           \* what the user of this run does: the files dropped, the modes
                  \* selected, the number of analyses that may complete
  \* the component ExplainMyScreenshot
  mounted,        \* the mount effect has run
  selectedFile, previewUrl, imageDataUrl, analysisMode, isAnalyzing,
  analysis, error, history, activeTab, showUpgrade, dailyCount,
  readers,        \* the files whose FileReader has not finished
  fetch,          \* the handleAnalyze call waiting for the endpoint, with the
                  \* values of the render it was started from
  pending         \* the number of handleAnalyze calls waiting for the endpoint

srvVars == <<request, apiKey, upstream, srvPc, providerCall, response>>
envVars == <<today, now, lsHistory, lsDaily, user>>
uiVars == <<mounted, selectedFile, previewUrl, imageDataUrl, analysisMode, isAnalyzing,
            analysis, error, history, activeTab, showUpgrade, dailyCount, readers, fetch, pending>>

vars == <<srvVars, envVars, uiVars>>

\* --------------------------------------------------------------- endpoint
NoType == <<>>
MediaTypes == {<<"image/", "png">>, <<"text/", "plain">>, NoType}
ImageSizes == {1, MaxImageBytes, MaxImageBytes + 1}

\* formData.get("image"): nothing, a text field, or a File
NoImage == [kind |-> "absent", size |-> 0, type |-> NoType]
TextImage == [kind |-> "string", size |-> 0, type |-> NoType]
FileImages == {[kind |-> "file", size |-> s, type |-> t] : s \in ImageSizes, t \in MediaTypes}
FormImages == {NoImage, TextImage} \cup FileImages

\* formData.get("mode")
FormModes == {None, "kitchen", "warehouse", "office", "garage"}

Requests == [formOk : BOOLEAN, image : FormImages, mode : FormModes]

\* the provider resolves with a completion or rejects with an error
ProviderStatuses == {401, 429}
UpstreamErrors == {[kind |-> "error", status |-> st, content |-> <<>>] :
                     st \in ProviderStatuses \cup {0}}
NoChoices == [kind |-> "nochoices", status |-> 0, content |-> <<>>]
UpstreamReplies(n) == {[kind |-> "content", status |-> 0, content |-> t] : t \in TextsUpTo(n)}

\* String.prototype.startsWith
startsWith(type, prefix) == Len(type) > 0 /\ type[1] = prefix

getPromptForMode(mode) ==
  IF mode = "warehouse" THEN "prompt:warehouse"
  ELSE IF mode = "office" THEN "prompt:office"
  ELSE "prompt:kitchen"

NoSections == [whatISee |-> <<>>, whatThisMeans |-> <<>>, possibleIssues |-> <<>>,
               whatYouCanDoNext |-> <<>>, riskLevel |-> None, raw |-> <<>>]

\* NextResponse.json({ error }, { status })
ErrorResponse(st, msg) == [status |-> st, error |-> msg, body |-> NoSections]
\* NextResponse.json(sections)
OkResponse(sections) == [status |-> 200, error |-> None, body |-> sections]

ErrNoKey == "OPENAI_API_KEY is not set on the server"
ErrNoImage == "No image provided"
ErrTooLarge == "File size must be less than 10MB"
ErrBadType == "Invalid file type. Please upload an image."
ErrFailed == "Failed to analyze screenshot"

\* no response yet / no provider call yet
NoResponse == [status |-> 0, error |-> None, body |-> NoSections]
NoCall == [model |-> None, prompt |-> None, imageType |-> NoType, max_tokens |-> 0]

\* the checks with the type checked before the size
Validate_typeFirst(req, key) ==
  IF ~key THEN ErrorResponse(500, ErrNoKey)
  ELSE IF ~req.formOk THEN ErrorResponse(500, ErrFailed)
  ELSE IF req.image.kind = "absent" THEN ErrorResponse(400, ErrNoImage)
  ELSE IF req.image.kind = "string" THEN ErrorResponse(500, ErrFailed)
  ELSE IF ~startsWith(req.image.type, "image/") THEN ErrorResponse(400, ErrBadType)
  ELSE IF req.image.size > MaxImageBytes THEN ErrorResponse(400, ErrTooLarge)
  ELSE NoResponse

\* the checks without the size limit
Validate_noSize(req, key) ==
  IF ~key THEN ErrorResponse(500, ErrNoKey)
  ELSE IF ~req.formOk THEN ErrorResponse(500, ErrFailed)
  ELSE IF req.image.kind = "absent" THEN ErrorResponse(400, ErrNoImage)
  ELSE IF req.image.kind = "string" THEN ErrorResponse(500, ErrFailed)
  ELSE IF ~startsWith(req.image.type, "image/") THEN ErrorResponse(400, ErrBadType)
  ELSE NoResponse

\* the checks with the missing credential answered as a bad request
Validate_keyAsBadRequest(req, key) ==
  IF ~key THEN ErrorResponse(400, ErrNoImage)
  ELSE IF ~req.formOk THEN ErrorResponse(500, ErrFailed)
  ELSE IF req.image.kind = "absent" THEN ErrorResponse(400, ErrNoImage)
  ELSE IF req.image.kind = "file" /\ req.image.size > MaxImageBytes
       THEN ErrorResponse(400, ErrTooLarge)
  ELSE IF req.image.kind = "string" THEN ErrorResponse(500, ErrFailed)
  ELSE IF ~startsWith(req.image.type, "image/") THEN ErrorResponse(400, ErrBadType)
  ELSE NoResponse

\* the checks of POST before the provider call; NoResponse when all of them pass
Validate(req, key) ==
  IF ~key THEN ErrorResponse(500, ErrNoKey)
  ELSE IF ~req.formOk THEN ErrorResponse(500, ErrFailed)
  ELSE IF req.image.kind = "absent" THEN ErrorResponse(400, ErrNoImage)
  ELSE IF req.image.kind = "file" /\ req.image.size > MaxImageBytes
       THEN ErrorResponse(400, ErrTooLarge)
  ELSE IF req.image.kind = "string" THEN ErrorResponse(500, ErrFailed)
  ELSE IF ~startsWith(req.image.type, "image/") THEN ErrorResponse(400, ErrBadType)
  ELSE NoResponse

\* POST up to the await of the provider call
PostBegin ==
  /\ srvPc = "start"
  /\ IF Validate(request, apiKey) # NoResponse
     THEN /\ response' = Validate(request, apiKey)
          /\ srvPc' = "done"
          /\ UNCHANGED providerCall
     ELSE /\ providerCall' = [model |-> "gpt-4o-mini",
                              prompt |-> getPromptForMode(request.mode),
                              imageType |-> request.image.type,
                              max_tokens |-> 900]
          /\ srvPc' = "awaiting"
          /\ UNCHANGED response
  /\ UNCHANGED <<request, apiKey, upstream, envVars, uiVars>>

\* what POST returns once the provider call has settled
Settle(up) ==
  IF up.kind = "error" THEN ErrorResponse(500, ErrFailed)
  ELSE OkResponse(Sections(IF up.kind = "content" THEN up.content ELSE <<>>))

\* POST from the provider's answer to the return
PostResolve ==
  /\ srvPc = "awaiting"
  /\ response' = Settle(upstream)
  /\ srvPc' = "done"
  /\ UNCHANGED <<request, apiKey, upstream, providerCall, envVars, uiVars>>

\* ----------------------------------------------------------------- client
Modes == {"kitchen", "warehouse", "office"}


\* the files the dropzone hands to onDrop (it accepts image/* only): two
\* images and one that is too large
File1 == [name |-> "f1", size |-> 1, type |-> <<"image/", "png">>]
File2 == [name |-> "f2", size |-> MaxImageBytes, type |-> <<"image/", "png">>]
FileBig == [name |-> "big", size |-> MaxImageBytes + 1, type |-> <<"image/", "png">>]
Files == {File1, File2, FileBig}
NoFile == [name |-> None, size |-> 0, type |-> NoType]

\* a user who analyses one image in one mode, and one who switches between two
\* images and two modes
PlainUser == [files |-> {File1, FileBig}, modes |-> {"kitchen"}, budget |-> MaxAnalyses]
BusyUser == [files |-> {File1, File2}, modes |-> {"kitchen", "office"}, budget |-> MaxReplays]

\* FileReader.readAsDataURL, URL.createObjectURL
DataUrlOf(f) == [kind |-> "data", of |-> f.name]
ObjectUrlOf(f) == [kind |-> "blob", of |-> f.name]
NoUrl == [kind |-> None, of |-> None]

\* localStorage.getItem(DAILY_KEY) === null / getItem(HISTORY_KEY) === null
NoDaily == [present |-> FALSE, date |-> 0, count |-> 0]
NoStoredHistory == [present |-> FALSE, items |-> <<>>]

\* the replies the provider gives in a client run
FullReply == <<"[WHAT_I_SEE]", "x", NL, "[RISK_LEVEL]", "HIGH">>
SampleUpstreams == {[kind |-> "content", status |-> 0, content |-> FullReply],
                    NoChoices,
                    [kind |-> "error", status |-> 429, content |-> <<>>]}

\* the request handleAnalyze sends for a file and a mode
FormOf(file, mode) ==
  [formOk |-> TRUE,
   image |-> [kind |-> "file", size |-> file.size, type |-> file.type],
   mode |-> mode]

\* the responses of the endpoint to a request that passes its checks
SettledResponses == {Settle(u) : u \in SampleUpstreams}

\* the responses the endpoint can give to a request
EndpointResponses(req) ==
  {Validate(req, FALSE)} \cup
  (IF Validate(req, TRUE) # NoResponse
   THEN {Validate(req, TRUE)}
   ELSE SettledResponses)

\* what fetch and response.json() give handleAnalyze: fetch rejects, the body
\* is no JSON, or the JSON of an endpoint response
FetchOutcomes(req) ==
  {[kind |-> "network", resp |-> NoResponse],
   [kind |-> "unparseable", resp |-> NoResponse]} \cup
  {[kind |-> "json", resp |-> r] : r \in EndpointResponses(req)}

\* the outcomes of the requests a client run sends
AllFetchOutcomes ==
  UNION {FetchOutcomes(FormOf(f, m)) : f \in {File1, File2}, m \in Modes}

NoAnalysis == NoSections

NoFetch == [active |-> FALSE, file |-> NoFile, mode |-> "kitchen",
            history |-> <<>>, imageDataUrl |-> NoUrl]

\* safeParse(localStorage.getItem(DAILY_KEY), {date: t, count: 0})
ParseDaily(ls, t) == IF ls.present THEN [date |-> ls.date, count |-> ls.count]
                     ELSE [date |-> t, count |-> 0]

\* safeParse(localStorage.getItem(HISTORY_KEY), [])
ParseHistory(ls) == IF ls.present THEN ls.items ELSE <<>>

\* the state of the component at its first render
FirstRender ==
  /\ selectedFile = NoFile
  /\ previewUrl = NoUrl
  /\ imageDataUrl = NoUrl
  /\ analysisMode = "kitchen"
  /\ isAnalyzing = FALSE
  /\ analysis = NoAnalysis
  /\ error = None
  /\ history = <<>>
  /\ activeTab = "analyze"
  /\ showUpgrade = FALSE
  /\ dailyCount = 0
  /\ readers = {}
  /\ fetch = NoFetch
  /\ pending = 0

\* useEffect(..., []): load history + daily usage on mount
Mount ==
  /\ ~mounted
  /\ mounted' = TRUE
  /\ history' = ParseHistory(lsHistory)
  /\ LET usage == ParseDaily(lsDaily, today)
     IN  IF usage.date # today
         THEN /\ lsDaily' = [present |-> TRUE, date |-> today, count |-> 0]
              /\ dailyCount' = 0
         ELSE /\ dailyCount' = usage.count
              /\ UNCHANGED lsDaily
  /\ UNCHANGED <<srvVars, today, now, lsHistory, user, selectedFile, previewUrl, imageDataUrl,
                 analysisMode, isAnalyzing, analysis, error, activeTab, showUpgrade,
                 readers, fetch, pending>>

\* onDrop
onDrop(file) ==
  /\ mounted /\ activeTab = "analyze"
  /\ file \in user.files
  /\ IF file.size > MaxImageBytes
     THEN /\ error' = "File size must be less than 10MB"
          /\ UNCHANGED <<selectedFile, previewUrl, analysis, readers>>
     ELSE IF ~startsWith(file.type, "image/")
     THEN /\ error' = "Please upload a valid image file (PNG, JPG, etc.)"
          /\ UNCHANGED <<selectedFile, previewUrl, analysis, readers>>
     ELSE /\ selectedFile' = file
          /\ previewUrl' = ObjectUrlOf(file)
          /\ error' = None
          /\ analysis' = NoAnalysis
          /\ readers' = readers \cup {file}
  /\ UNCHANGED <<srvVars, envVars, mounted, imageDataUrl, analysisMode, isAnalyzing,
                 history, activeTab, showUpgrade, dailyCount, fetch, pending>>

\* reader.onload
ReaderLoad(file) ==
  /\ mounted /\ file \in readers
  /\ readers' = readers \ {file}
  /\ imageDataUrl' = DataUrlOf(file)
  /\ UNCHANGED <<srvVars, envVars, mounted, selectedFile, previewUrl, analysisMode,
                 isAnalyzing, analysis, error, history, activeTab, showUpgrade,
                 dailyCount, fetch, pending>>

\* reader.onerror
ReaderError(file) ==
  /\ mounted /\ file \in readers
  /\ readers' = readers \ {file}
  /\ imageDataUrl' = NoUrl
  /\ UNCHANGED <<srvVars, envVars, mounted, selectedFile, previewUrl, analysisMode,
                 isAnalyzing, analysis, error, history, activeTab, showUpgrade,
                 dailyCount, fetch, pending>>

\* bumpDailyUsage without the comparison of the stored date with today
BumpedDaily_noDate(ls, t) ==
  LET current == ParseDaily(ls, t)
  IN  [present |-> TRUE, date |-> t, count |-> current.count + 1]

\* the result of bumpDailyUsage in localStorage
BumpedDaily(ls, t) ==
  LET current == ParseDaily(ls, t)
  IN  IF current.date = t
      THEN [present |-> TRUE, date |-> t, count |-> current.count + 1]
      ELSE [present |-> TRUE, date |-> t, count |-> 1]

\* the HistoryItem saveToHistory builds
NewItem(result, mode, url, ts) ==
  [id |-> ts, createdAt |-> ts, mode |-> mode,
   riskLevel |-> result.riskLevel,
   whatISee |-> result.whatISee,
   whatThisMeans |-> result.whatThisMeans,
   possibleIssues |-> result.possibleIssues,
   whatYouCanDoNext |-> result.whatYouCanDoNext,
   raw |-> result.raw,
   imageDataUrl |-> url]

\* the slice one too long
Prepend_offByOne(item, hist) ==
  LET all == <<item>> \o hist
  IN  SubSeq(all, 1, IF Len(all) < HISTORY_LIMIT + 1 THEN Len(all) ELSE HISTORY_LIMIT + 1)

\* the new item put at the end of the list
Prepend_atEnd(item, hist) ==
  LET all == hist \o <<item>>
  IN  SubSeq(all, 1, IF Len(all) < HISTORY_LIMIT THEN Len(all) ELSE HISTORY_LIMIT)

\* [item, ...history].slice(0, HISTORY_LIMIT)
Prepend(item, hist) ==
  LET all == <<item>> \o hist
  IN  SubSeq(all, 1, IF Len(all) < HISTORY_LIMIT THEN Len(all) ELSE HISTORY_LIMIT)

\* the gate with > for >=
GateDenies_strict(count) == count > DAILY_FREE_LIMIT

\* the daily limit gate of handleAnalyze
GateDenies(count) == count >= DAILY_FREE_LIMIT

\* an Analyze button that is never disabled
ButtonDisabled_never == FALSE

\* the Analyze button is disabled while an analysis runs
ButtonDisabled == isAnalyzing

\* handleAnalyze up to the await of fetch
handleAnalyze ==
  /\ mounted /\ activeTab = "analyze"
  /\ selectedFile # NoFile
  /\ ~ButtonDisabled
  /\ (now < user.budget \/ GateDenies(dailyCount))
  /\ IF GateDenies(dailyCount)
     THEN /\ showUpgrade' = TRUE
          /\ UNCHANGED <<isAnalyzing, error, fetch, pending>>
     ELSE /\ isAnalyzing' = TRUE
          /\ error' = None
          /\ fetch' = [active |-> TRUE, file |-> selectedFile, mode |-> analysisMode,
                       history |-> history, imageDataUrl |-> imageDataUrl]
          /\ pending' = pending + 1
          /\ UNCHANGED showUpgrade
  /\ UNCHANGED <<srvVars, envVars, mounted, selectedFile, previewUrl, imageDataUrl,
                 analysisMode, analysis, history, activeTab, dailyCount, readers>>

\* handleAnalyze without its check of response.ok
IsFailure_noStatus(out) == out.kind # "json"

\* the outcome is a failure: handleAnalyze goes to its catch block
IsFailure(out) == out.kind # "json" \/ out.resp.status # 200

\* the message of the error handleAnalyze catches
FailureMessage(out) ==
  IF out.kind = "network" THEN "Failed to fetch"
  ELSE IF out.kind = "unparseable" THEN "Unexpected token"
  ELSE IF out.resp.error # None THEN out.resp.error
  ELSE ErrFailed

\* handleAnalyze with setIsAnalyzing(false) on the success path only, no finally
handleAnalyzeResume_noFinally(out) ==
  /\ mounted /\ fetch.active
  /\ out \in FetchOutcomes(FormOf(fetch.file, fetch.mode))
  /\ IF IsFailure(out)
     THEN /\ error' = FailureMessage(out)
          /\ UNCHANGED <<analysis, lsDaily, dailyCount, history, lsHistory, now,
                         isAnalyzing>>
     ELSE LET result == out.resp.body
              next == Prepend(NewItem(result, fetch.mode, fetch.imageDataUrl, now),
                              fetch.history)
          IN  /\ error' = IF out.resp.error # None /\ result.riskLevel = None
                          THEN out.resp.error ELSE error
              /\ analysis' = result
              /\ lsDaily' = BumpedDaily(lsDaily, today)
              /\ dailyCount' = BumpedDaily(lsDaily, today).count
              /\ history' = next
              /\ lsHistory' = [present |-> TRUE, items |-> next]
              /\ now' = now + 1
              /\ isAnalyzing' = FALSE
  /\ fetch' = NoFetch
  /\ pending' = pending - 1
  /\ UNCHANGED <<srvVars, today, user, mounted, selectedFile, previewUrl, imageDataUrl,
                 analysisMode, activeTab, showUpgrade, readers>>

\* handleAnalyze from the answer of fetch to its end
handleAnalyzeResume(out) ==
  /\ mounted /\ fetch.active
  /\ out \in FetchOutcomes(FormOf(fetch.file, fetch.mode))
  /\ IF IsFailure(out)
     THEN /\ error' = FailureMessage(out)
          /\ UNCHANGED <<analysis, lsDaily, dailyCount, history, lsHistory, now>>
     ELSE LET result == out.resp.body
              next == Prepend(NewItem(result, fetch.mode, fetch.imageDataUrl, now),
                              fetch.history)
          IN  /\ error' = IF out.resp.error # None /\ result.riskLevel = None
                          THEN out.resp.error ELSE error
              /\ analysis' = result
              /\ lsDaily' = BumpedDaily(lsDaily, today)
              /\ dailyCount' = BumpedDaily(lsDaily, today).count
              /\ history' = next
              /\ lsHistory' = [present |-> TRUE, items |-> next]
              /\ now' = now + 1
  /\ isAnalyzing' = FALSE
  /\ fetch' = NoFetch
  /\ pending' = pending - 1
  /\ UNCHANGED <<srvVars, today, user, mounted, selectedFile, previewUrl, imageDataUrl,
                 analysisMode, activeTab, showUpgrade, readers>>

\* openHistoryItem without setAnalysisMode
openHistoryItem_keepsMode(i) ==
  /\ mounted /\ activeTab = "history"
  /\ i \in 1..Len(history)
  /\ LET item == history[i]
     IN  /\ activeTab' = "analyze"
         /\ analysis' = [whatISee |-> item.whatISee,
                         whatThisMeans |-> item.whatThisMeans,
                         possibleIssues |-> item.possibleIssues,
                         whatYouCanDoNext |-> item.whatYouCanDoNext,
                         riskLevel |-> item.riskLevel,
                         raw |-> item.raw]
         /\ previewUrl' = item.imageDataUrl
         /\ imageDataUrl' = item.imageDataUrl
         /\ error' = None
  /\ UNCHANGED <<srvVars, envVars, mounted, selectedFile, isAnalyzing, history,
                 analysisMode, showUpgrade, dailyCount, readers, fetch, pending>>

\* openHistoryItem
openHistoryItem(i) ==
  /\ mounted /\ activeTab = "history"
  /\ i \in 1..Len(history)
  /\ LET item == history[i]
     IN  /\ activeTab' = "analyze"
         /\ analysisMode' = item.mode
         /\ analysis' = [whatISee |-> item.whatISee,
                         whatThisMeans |-> item.whatThisMeans,
                         possibleIssues |-> item.possibleIssues,
                         whatYouCanDoNext |-> item.whatYouCanDoNext,
                         riskLevel |-> item.riskLevel,
                         raw |-> item.raw]
         /\ previewUrl' = item.imageDataUrl
         /\ imageDataUrl' = item.imageDataUrl
         /\ error' = None
  /\ UNCHANGED <<srvVars, envVars, mounted, selectedFile, isAnalyzing, history,
                 showUpgrade, dailyCount, readers, fetch, pending>>

\* clearHistory without the removal of the stored list
clearHistory_memoryOnly ==
  /\ mounted /\ activeTab = "history"
  /\ history # <<>>
  /\ history' = <<>>
  /\ UNCHANGED <<srvVars, envVars, mounted, selectedFile, previewUrl,
                 imageDataUrl, analysisMode, isAnalyzing, analysis, error, activeTab,
                 showUpgrade, dailyCount, readers, fetch, pending>>

\* clearHistory emptying the whole of localStorage
clearHistory_allKeys ==
  /\ mounted /\ activeTab = "history"
  /\ history # <<>>
  /\ history' = <<>>
  /\ lsHistory' = NoStoredHistory
  /\ lsDaily' = NoDaily
  /\ UNCHANGED <<srvVars, today, now, user, mounted, selectedFile, previewUrl,
                 imageDataUrl, analysisMode, isAnalyzing, analysis, error, activeTab,
                 showUpgrade, dailyCount, readers, fetch, pending>>

\* clearHistory
clearHistory ==
  /\ mounted /\ activeTab = "history"
  /\ history # <<>>
  /\ history' = <<>>
  /\ lsHistory' = NoStoredHistory
  /\ UNCHANGED <<srvVars, today, now, lsDaily, user, mounted, selectedFile, previewUrl,
                 imageDataUrl, analysisMode, isAnalyzing, analysis, error, activeTab,
                 showUpgrade, dailyCount, readers, fetch, pending>>

\* the tab buttons
setActiveTab(tab) ==
  /\ mounted
  /\ activeTab' = tab
  /\ UNCHANGED <<srvVars, envVars, mounted, selectedFile, previewUrl, imageDataUrl,
                 analysisMode, isAnalyzing, analysis, error, history, showUpgrade,
                 dailyCount, readers, fetch, pending>>

\* the mode selector
setAnalysisMode(mode) ==
  /\ mounted /\ activeTab = "analyze"
  /\ mode \in user.modes
  /\ analysisMode' = mode
  /\ UNCHANGED <<srvVars, envVars, mounted, selectedFile, previewUrl, imageDataUrl,
                 isAnalyzing, analysis, error, history, activeTab, showUpgrade,
                 dailyCount, readers, fetch, pending>>

\* the buttons of the upgrade dialog
closeUpgrade ==
  /\ mounted /\ showUpgrade
  /\ showUpgrade' = FALSE
  /\ UNCHANGED <<srvVars, envVars, mounted, selectedFile, previewUrl, imageDataUrl,
                 analysisMode, isAnalyzing, analysis, error, history, activeTab,
                 dailyCount, readers, fetch, pending>>

\* the page is loaded again: a new component, nothing of the old one runs on
Reload ==
  /\ mounted
  /\ mounted' = FALSE
  /\ selectedFile' = NoFile
  /\ previewUrl' = NoUrl
  /\ imageDataUrl' = NoUrl
  /\ analysisMode' = "kitchen"
  /\ isAnalyzing' = FALSE
  /\ analysis' = NoAnalysis
  /\ error' = None
  /\ history' = <<>>
  /\ activeTab' = "analyze"
  /\ showUpgrade' = FALSE
  /\ dailyCount' = 0
  /\ readers' = {}
  /\ fetch' = NoFetch
  /\ pending' = 0
  /\ UNCHANGED <<srvVars, envVars>>

\* midnight passes
DayRolls ==
  /\ today < MaxDay
  /\ today' = today + 1
  /\ UNCHANGED <<srvVars, now, lsHistory, lsDaily, user, uiVars>>

ValidRequest == [formOk |-> TRUE,
                 image |-> [kind |-> "file", size |-> 1, type |-> <<"image/", "png">>],
                 mode |-> "kitchen"]

\* the endpoint is not part of a client run
ServerIdle ==
  /\ request = ValidRequest
  /\ apiKey = TRUE
  /\ upstream = NoChoices
  /\ srvPc = "done"
  /\ providerCall = NoCall
  /\ response = NoResponse

\* a browser that has stored nothing and has just loaded the page
ClientIdle ==
  /\ user = PlainUser
  /\ today = 0
  /\ now = 0
  /\ lsHistory = NoStoredHistory
  /\ lsDaily = NoDaily
  /\ mounted = FALSE
  /\ FirstRender

\* the history a browser holds after n analyses on earlier days
RECURSIVE OldHistory(_)
OldHistory(n) ==
  IF n = 0 THEN <<>>
  ELSE <<NewItem(Sections(FullReply), "kitchen", NoUrl, 0 - (HISTORY_LIMIT - n))>>
       \o OldHistory(n - 1)

\* the page has just loaded in a new browser
Init == ServerIdle /\ ClientIdle

\* the page has just loaded in a browser that was used on earlier days and
\* holds a history one short of the limit
InitHistory ==
  /\ ServerIdle
  /\ user = PlainUser
  /\ today = 0
  /\ now = 0
  /\ lsHistory = [present |-> TRUE, items |-> OldHistory(HISTORY_LIMIT - 1)]
  /\ lsDaily = [present |-> TRUE, date |-> 0 - 1, count |-> DAILY_FREE_LIMIT]
  /\ mounted = FALSE
  /\ FirstRender

Next ==
  \/ Mount
  \/ \E f \in Files : onDrop(f)
  \/ \E f \in Files : ReaderLoad(f)
  \/ \E f \in Files : ReaderError(f)
  \/ handleAnalyze
  \/ \E out \in AllFetchOutcomes : handleAnalyzeResume(out)
  \/ \E i \in 1..HISTORY_LIMIT : openHistoryItem(i)
  \/ clearHistory
  \/ \E tab \in {"analyze", "history"} : setActiveTab(tab)
  \/ \E m \in Modes : setAnalysisMode(m)
  \/ closeUpgrade
  \/ Reload
  \/ DayRolls

Spec == Init /\ [][Next]_vars
SpecHistory == InitHistory /\ [][Next]_vars

\* the page has just loaded for the busy user, in a browser that holds one
\* analysis of today in its usage record and no history
InitReplay ==
  /\ ServerIdle
  /\ user = BusyUser
  /\ today = 0
  /\ now = 0
  /\ lsHistory = NoStoredHistory
  /\ lsDaily = [present |-> TRUE, date |-> 0, count |-> DAILY_FREE_LIMIT - 1]
  /\ mounted = FALSE
  /\ FirstRender

SpecReplay == InitReplay /\ [][Next]_vars

\* the promise of fetch settles, and the continuation of handleAnalyze then runs
FetchSettles ==
  /\ mounted /\ fetch.active
  /\ \E out \in AllFetchOutcomes : handleAnalyzeResume(out)

\* the client in a new browser, every call of the endpoint resolving or rejecting
SpecLive == Init /\ [][Next]_vars /\ WF_vars(FetchSettles)

InitEndpoint ==
  /\ ClientIdle
  /\ request \in Requests
  /\ apiKey \in BOOLEAN
  /\ upstream \in UpstreamErrors \cup {NoChoices} \cup UpstreamReplies(MaxReplyLen)
  /\ srvPc = "start"
  /\ providerCall = NoCall
  /\ response = NoResponse

InitParse ==
  /\ ClientIdle
  /\ request = ValidRequest
  /\ apiKey = TRUE
  /\ upstream \in UpstreamReplies(MaxLen)
  /\ srvPc = "start"
  /\ providerCall = NoCall
  /\ response = NoResponse

NextEndpoint == PostBegin \/ PostResolve

SpecEndpoint == InitEndpoint /\ [][NextEndpoint]_vars
SpecParse == InitParse /\ [][NextEndpoint]_vars

\* ================================================================= claims
\* the count stored for the current day
CountForToday == IF lsDaily.present /\ lsDaily.date = today THEN lsDaily.count ELSE 0

\* the items of a list, as a set
ItemsOf(list) == {list[i] : i \in 1..Len(list)}

\* the outcome of a request as the client sees it: a failure is a network
\* error, a body that is no JSON, or a status that is not OK
Failed(out) == out.kind \in {"network", "unparseable"} \/ out.resp.status # 200

\* the step is the end of a request that completed
CompletedStep ==
  fetch.active /\ ~fetch'.active /\ mounted' /\
  \E out \in AllFetchOutcomes :
    ~Failed(out) /\ handleAnalyzeResume(out)

\* the step is the end of a request that failed
FailedStep ==
  fetch.active /\ ~fetch'.active /\ mounted' /\
  \E out \in AllFetchOutcomes :
    Failed(out) /\ handleAnalyzeResume(out)

\* C1: an analysis attempt made while the count stored for today is at or over
\* the quota sends no request, shows the upgrade prompt and leaves the daily
\* count and the history as they are.
C1_GateDenial ==
  [][(handleAnalyze /\ CountForToday >= DAILY_FREE_LIMIT)
       => /\ fetch' = fetch /\ ~fetch'.active /\ ~isAnalyzing'
          /\ showUpgrade'
          /\ UNCHANGED <<lsDaily, dailyCount, history, lsHistory>>]_vars

\* an attempt was denied with the quota used up, and nothing is in flight
C1_Witness ==
  /\ showUpgrade /\ CountForToday >= DAILY_FREE_LIMIT
  /\ selectedFile # NoFile /\ ~fetch.active

\* C2: the count stored for the current day never exceeds the quota.
C2_QuotaInvariant == CountForToday <= DAILY_FREE_LIMIT

\* the quota is used up and the history was cleared after the analyses
C2_Witness ==
  /\ CountForToday = DAILY_FREE_LIMIT
  /\ now >= DAILY_FREE_LIMIT /\ ~lsHistory.present /\ mounted

\* C3: when today is not the stored usage date an attempt is let through by the
\* gate, page reloaded or not, and an analysis that then succeeds leaves the
\* stored usage at {date: today, count: 1}.
C3_DayRollover ==
  [][/\ (handleAnalyze /\ lsDaily.present /\ lsDaily.date # today)
          => (fetch'.active /\ ~showUpgrade')
     /\ (CompletedStep /\ lsDaily.present /\ lsDaily.date # today)
          => lsDaily' = [present |-> TRUE, date |-> today, count |-> 1]]_vars

\* C4: a request that fails adds no history item, in memory or in storage, and
\* does not change the daily count; a step that stores a new item or a larger
\* count is the end of a request that completed.
C4_NoPartialResults ==
  [][/\ FailedStep => UNCHANGED <<history, lsHistory, lsDaily, dailyCount>>
     /\ (lsHistory' # lsHistory /\ ItemsOf(lsHistory'.items) \ ItemsOf(lsHistory.items) # {})
          => CompletedStep
     /\ (/\ history' # history
         /\ ItemsOf(history') \ (ItemsOf(history) \cup ItemsOf(lsHistory.items)) # {})
          => CompletedStep
     /\ (lsDaily' # lsDaily /\ lsDaily'.count > 0) => CompletedStep]_vars

\* a request has failed after an earlier one had completed
C4_Witness ==
  /\ error \in {"Failed to fetch", "Unexpected token", ErrFailed, ErrNoKey}
  /\ ~isAnalyzing /\ Len(history) = 1 /\ CountForToday = 1 /\ dailyCount = 1

\* C5: after every append the history has at most HISTORY_LIMIT items in memory
\* and in storage, the new item is first, and an append to a full list drops
\* its last item and keeps the others in order.
C5_HistoryCapacity ==
  [][CompletedStep
       => /\ Len(history') <= HISTORY_LIMIT
          /\ lsHistory'.present /\ Len(lsHistory'.items) <= HISTORY_LIMIT
          /\ Len(history') >= 1 /\ history'[1].createdAt = now
          /\ history'[1] \notin ItemsOf(history)
          /\ lsHistory'.items[1] = history'[1]
          /\ Len(history) = HISTORY_LIMIT
               => /\ Len(history') = HISTORY_LIMIT
                  /\ \A i \in 2..HISTORY_LIMIT : history'[i] = history[i - 1]
                  /\ history[HISTORY_LIMIT] \notin ItemsOf(history')
                  /\ lsHistory'.items = history']_vars

\* 21 items were appended: 20 are left, the 21st first and the 1st gone
C5_Witness ==
  /\ Len(history) = HISTORY_LIMIT /\ Len(lsHistory.items) = HISTORY_LIMIT
  /\ history[1].createdAt = 1
  /\ history[HISTORY_LIMIT].createdAt = 0 - (HISTORY_LIMIT - 2)

\* the checks of the endpoint, on a request whose form parses and whose image
\* field is absent or a file
MissingImage == request.image.kind = "absent"
TooLarge == request.image.kind = "file" /\ request.image.size > 10 * 1024 * 1024
NotAnImage == request.image.kind = "file" /\ ~(Len(request.image.type) > 0 /\ request.image.type[1] = "image/")
MissingKey == ~apiKey
Answered == srvPc = "done" /\ request.formOk /\ request.image.kind # "string"

\* C6 as stated: the checks are made in the order missing image, too large,
\* not an image, missing credential, and the first that fails gives the error.
C6_OrderAsStated ==
  Answered =>
    /\ MissingImage => response.error = ErrNoImage
    /\ (~MissingImage /\ TooLarge) => response.error = ErrTooLarge
    /\ (~MissingImage /\ ~TooLarge /\ NotAnImage) => response.error = ErrBadType
    /\ (~MissingImage /\ ~TooLarge /\ ~NotAnImage /\ MissingKey)
         => response.error = ErrNoKey

\* C6 amended: the checks are made in the order missing credential, missing
\* image, too large, not an image, and the first that fails gives the error.
C6_ValidationOrder ==
  Answered =>
    /\ MissingKey => (response.error = ErrNoKey /\ response.status = 500)
    /\ (~MissingKey /\ MissingImage)
         => (response.error = ErrNoImage /\ response.status = 400)
    /\ (~MissingKey /\ ~MissingImage /\ TooLarge)
         => (response.error = ErrTooLarge /\ response.status = 400)
    /\ (~MissingKey /\ ~MissingImage /\ ~TooLarge /\ NotAnImage)
         => (response.error = ErrBadType /\ response.status = 400)

\* a request without an image to a server without a credential, answered with
\* the error of the credential
C6_Witness ==
  /\ Answered /\ MissingKey /\ MissingImage
  /\ response.error = ErrNoKey /\ response.status = 500

\* C7: when the provider call fails the response carries the provider's status
\* when the failure has one, and 500 when it has none.
C7_UpstreamStatus ==
  (srvPc = "done" /\ providerCall # NoCall /\ upstream.kind = "error")
    => /\ response.error # None
       /\ response.status = IF upstream.status # 0 THEN upstream.status ELSE 500

\* C8: when the provider call succeeds with empty or missing text the response
\* is a 200 with the four texts empty, riskLevel LOW and an error note.
C8_EmptyOutput ==
  (/\ srvPc = "done" /\ providerCall # NoCall
   /\ upstream.kind \in {"nochoices", "content"} /\ upstream.content = <<>>)
    => /\ response.status = 200
       /\ response.body.whatISee = <<>> /\ response.body.whatThisMeans = <<>>
       /\ response.body.possibleIssues = <<>> /\ response.body.whatYouCanDoNext = <<>>
       /\ response.body.riskLevel = "LOW"
       /\ response.error # None

\* the reply was parsed
Parsed == srvPc = "done" /\ providerCall # NoCall /\ upstream.kind = "content"

\* the text contains the word, in any case
ContainsWord(text, word) == \E i \in 1..Len(text) : ToUpper(text[i]) = word

\* C9 as stated: riskLevel is HIGH when the RISK_LEVEL section contains "high"
\* anywhere, else MEDIUM when it contains "medium" anywhere, else LOW.
C9_RiskAsStated ==
  Parsed =>
    LET risk == extract("RISK_LEVEL", upstream.content)
    IN  response.body.riskLevel =
          IF ContainsWord(risk, "HIGH") THEN "HIGH"
          ELSE IF ContainsWord(risk, "MEDIUM") THEN "MEDIUM"
          ELSE "LOW"

\* the marker at i is followed, after whitespace only, by the risk word at k
RiskWordFollows(text, i, k) ==
  /\ i \in 1..Len(text) /\ k \in (i + 1)..Len(text)
  /\ ToUpper(text[i]) = "[RISK_LEVEL]"
  /\ \A j \in (i + 1)..(k - 1) : text[j] \in {NL, SP}
  /\ ToUpper(text[k]) \in {"LOW", "MEDIUM", "HIGH"}

\* C9 amended: riskLevel is the word LOW, MEDIUM or HIGH (in any case, given in
\* upper case) that follows the first [RISK_LEVEL] marker followed, after
\* whitespace only, by such a word; it is LOW when there is no such marker.
C9_RiskLevel ==
  Parsed =>
    LET text == upstream.content
        risk == response.body.riskLevel
    IN  /\ risk \in {"LOW", "MEDIUM", "HIGH"}
        /\ \A i, k \in 1..Len(text) :
             (/\ RiskWordFollows(text, i, k)
              /\ ~\E i2 \in 1..(i - 1), k2 \in 1..Len(text) : RiskWordFollows(text, i2, k2))
               => risk = ToUpper(text[k])
        /\ (~\E i, k \in 1..Len(text) : RiskWordFollows(text, i, k)) => risk = "LOW"

\* a reply whose section names MEDIUM first and HIGH later gives MEDIUM
C9_Witness ==
  /\ Parsed /\ response.body.riskLevel = "MEDIUM"
  /\ ContainsWord(extract("RISK_LEVEL", upstream.content), "HIGH")

\* the token is the marker of one of the five sections
IsSectionMarker(tok) == \E tag \in Tags : ToUpper(tok) = MarkerOf(tag)

\* the text from position k up to the next section marker or the end
RECURSIVE UpToMarker(_, _)
UpToMarker(text, k) ==
  IF k > Len(text) \/ IsSectionMarker(text[k]) THEN <<>>
  ELSE <<text[k]>> \o UpToMarker(text, k + 1)

\* the section of a tag as C10 states it
SectionAsStated(tag, text) ==
  IF \E i \in 1..Len(text) : ToUpper(text[i]) = MarkerOf(tag)
  THEN LET i == CHOOSE i \in 1..Len(text) :
                  /\ ToUpper(text[i]) = MarkerOf(tag)
                  /\ \A j \in 1..(i - 1) : ToUpper(text[j]) # MarkerOf(tag)
       IN  Trim(UpToMarker(text, i + 1))
  ELSE <<>>

\* C10: extract gives the text after the first [TAG] marker up to the next
\* section marker, on a new line or not, or the end, trimmed; the empty text
\* when the marker does not occur.
C10_SectionExtractor ==
  Parsed =>
    /\ response.body.whatISee = SectionAsStated("WHAT_I_SEE", upstream.content)
    /\ response.body.whatThisMeans = SectionAsStated("WHAT_THIS_MEANS", upstream.content)
    /\ response.body.possibleIssues = SectionAsStated("POSSIBLE_ISSUES", upstream.content)
    /\ response.body.whatYouCanDoNext =
         SectionAsStated("WHAT_YOU_CAN_DO_NEXT", upstream.content)

\* ---------------------------------------------------------------------------
\* C11: a request whose image is missing, larger than the limit or not of an
\* image type never reaches the provider, and its answer is an error: a status
\* other than 200 together with an error message.
UserInputError == MissingImage \/ TooLarge \/ NotAnImage

C11_UserInputErrors ==
  UserInputError =>
    /\ providerCall = NoCall
    /\ srvPc # "awaiting"
    /\ srvPc = "done" => (response.status # 200 /\ response.error # None)

C11_Witness ==
  /\ srvPc = "done" /\ apiKey /\ request.formOk
  /\ TooLarge /\ ~NotAnImage
  /\ response.status = 400 /\ response.error = ErrTooLarge
  /\ providerCall = NoCall

\* C12: without the credential the provider is never called, and the answer
\* differs in status and in message from every answer to a user-input error.
UserInputErrorResponses ==
  { Validate(r, TRUE) : r \in { q \in Requests :
      /\ q.formOk
      /\ \/ q.image.kind = "absent"
         \/ q.image.kind = "file" /\ q.image.size > MaxImageBytes
         \/ q.image.kind = "file" /\ ~startsWith(q.image.type, "image/") } }

C12_MissingCredential ==
  ~apiKey =>
    /\ providerCall = NoCall
    /\ srvPc # "awaiting"
    /\ srvPc = "done" =>
         /\ response.status # 200 /\ response.error # None
         /\ \A u \in UserInputErrorResponses :
              response.status # u.status /\ response.error # u.error

C12_Witness ==
  /\ srvPc = "done" /\ ~apiKey /\ request = ValidRequest
  /\ response.error = ErrNoKey /\ response.status = 500
  /\ providerCall = NoCall

\* C13: within one day every analysis that completes adds exactly one to the
\* count stored for today and no other step changes it, so that on the first
\* day the count stored for today is the number of analyses completed so far.
C13_CountTracksSuccesses ==
  /\ [](today = 0 => CountForToday = now)
  /\ [][today' = today =>
         /\ CompletedStep => CountForToday' = CountForToday + 1
         /\ ~CompletedStep => CountForToday' = CountForToday]_vars

C13_Witness ==
  /\ today = 0 /\ now = 2 /\ mounted /\ ~fetch.active
  /\ lsDaily = [present |-> TRUE, date |-> 0, count |-> 2]
  /\ Len(history) = 2

\* C14: once the count stored for today has reached the quota, no step taken on
\* that day brings it below the quota again, and whenever the component is
\* mounted its own count is at the quota too: a reload, the mount effect,
\* closing the upgrade prompt and every other operation leave the gate closed.
C14_NoMidDayReset ==
  [][(CountForToday >= DAILY_FREE_LIMIT /\ today' = today)
       => /\ CountForToday' >= DAILY_FREE_LIMIT
          /\ (mounted' => GateDenies(dailyCount'))]_vars

C14_Witness ==
  /\ CountForToday >= DAILY_FREE_LIMIT
  /\ mounted /\ dailyCount >= DAILY_FREE_LIMIT
  /\ selectedFile = NoFile /\ analysis = NoAnalysis /\ ~showUpgrade
  /\ today = 1

\* C16: at most one request is outstanding at any time: a request is
\* outstanding exactly while isAnalyzing is true, only a click on Analyze made
\* while none is outstanding starts one, and the end of a failed request starts
\* none.
C16_SingleRequest ==
  /\ [](pending <= 1 /\ (isAnalyzing <=> pending = 1))
  /\ [][/\ (pending' > pending => (handleAnalyze /\ ~isAnalyzing /\ pending = 0))
         /\ (FailedStep => (pending' = 0 /\ ~isAnalyzing' /\ ~fetch'.active))]_vars

C16_Witness ==
  /\ mounted /\ pending = 0 /\ ~isAnalyzing
  /\ error = ErrFailed /\ now = 1 /\ dailyCount = 1

\* C15: in every reachable state the history, in memory and in storage, is
\* ordered most recent first: createdAt never grows from one item to the next.
NewestFirst(list) ==
  \A i \in 1..Len(list) : \A j \in 1..Len(list) :
    i < j => list[i].createdAt >= list[j].createdAt

C15_HistoryOrdering == NewestFirst(history) /\ NewestFirst(lsHistory.items)

C15_Witness ==
  /\ Len(history) = HISTORY_LIMIT /\ lsHistory.items = history
  /\ history[1].createdAt = 1 /\ history[2].createdAt = 0
  /\ history[3].createdAt < 0

\* C17: reopening a history item starts no request, leaves the history and the
\* daily count as they are, in memory and in storage, and makes the item's six
\* result fields the active analysis and the item's mode the active mode.
C17_Reopen ==
  [][\A i \in 1..Len(history) :
       openHistoryItem(i)
         => /\ pending' = pending /\ fetch' = fetch /\ isAnalyzing' = isAnalyzing
            /\ UNCHANGED <<history, lsHistory, dailyCount, lsDaily>>
            /\ analysis'.whatISee = history[i].whatISee
            /\ analysis'.whatThisMeans = history[i].whatThisMeans
            /\ analysis'.possibleIssues = history[i].possibleIssues
            /\ analysis'.whatYouCanDoNext = history[i].whatYouCanDoNext
            /\ analysis'.riskLevel = history[i].riskLevel
            /\ analysis'.raw = history[i].raw
            /\ DOMAIN analysis' = {"whatISee", "whatThisMeans", "possibleIssues",
                                   "whatYouCanDoNext", "riskLevel", "raw"}
            /\ analysisMode' = history[i].mode]_vars

\* after a reload an item analysed in office mode has been reopened
C17_Witness ==
  /\ mounted /\ activeTab = "analyze" /\ selectedFile = NoFile
  /\ Len(history) = 1 /\ history[1].mode = "office"
  /\ analysisMode = "office"
  /\ analysis # NoAnalysis /\ analysis.raw = history[1].raw
  /\ ~isAnalyzing /\ pending = 0

\* C18: when the history was cleared while a request was in flight, the end of
\* that request leaves in the history, in memory and in storage, the new result
\* alone and none of the items that were there before the clear.
C18_ClearNotUndone ==
  [][(CompletedStep /\ history = <<>> /\ ~lsHistory.present)
       => /\ Len(history') = 1 /\ history'[1].createdAt = now
          /\ lsHistory'.items = history'
          /\ ItemsOf(history') \cap ItemsOf(fetch.history) = {}]_vars

\* C19: the image kept with a history item is absent or the data URL of the file
\* that was sent to the endpoint for that analysis.
C19_ThumbnailMatches ==
  [][CompletedStep
       => /\ Len(history') >= 1
          /\ history'[1].imageDataUrl \in {NoUrl, DataUrlOf(fetch.file)}
          /\ lsHistory'.items[1].imageDataUrl = history'[1].imageDataUrl]_vars

\* C20: once the mount effect has run, the count in memory is the count stored
\* under the daily-usage key and the history in memory is the list stored under
\* the history key, an absent key standing for count 0 and for the empty list.
StoredCount == IF lsDaily.present THEN lsDaily.count ELSE 0
StoredList == IF lsHistory.present THEN lsHistory.items ELSE <<>>

C21_FlagReleased ==
  /\ [](isAnalyzing => (mounted /\ fetch.active /\ pending = 1))
  /\ (isAnalyzing ~> (~isAnalyzing /\ pending = 0))

C21_Witness ==
  /\ mounted /\ ~isAnalyzing /\ pending = 0 /\ ~fetch.active
  /\ error = "Failed to fetch" /\ selectedFile # NoFile
  /\ now = 0 /\ analysis = NoAnalysis

====
